---- MODULE Spec2Model ----
(***************************************************************************)
(* A model of cfnmod/cfnmod.py: the file collector, the deterministic      *)
(* archiver, the fingerprinter, and the publish and install workflows      *)
(* against an object store.                                                *)
(*                                                                         *)
(* Strings are sequences of one-character strings, so that sorting,        *)
(* globbing and the "dev" substring test are computed and not assumed.     *)
(***************************************************************************)
EXTENDS Integers, Sequences, FiniteSets, TLC

\* ------------------------------------------------------------------ bounds
MaxGroups == 3       \* longest manifest "artifacts" list drawn for collect_files
MaxInvocations == 3  \* command invocations in one behaviour
MaxClock == 0        \* latest reading of the wall clock (seconds after the first)

\* ----------------------------------------------------------------- strings
\* The characters in use, in code point order (Python compares str by code point).
Alphabet ==
    << "*", "-", ".", "/", "0", "1", "2", "3", "7", "8", "a", "b", "c", "d", "e", "h",
       "l", "m", "o", "s", "t", "u", "v", "x", "y" >>

Ord(c) == CHOOSE i \in DOMAIN Alphabet : Alphabet[i] = c

RECURSIVE StrLess(_, _)
\* s < t for Python str
StrLess(s, t) ==
    IF s = <<>> THEN t # <<>>
    ELSE IF t = <<>> THEN FALSE
    ELSE IF Head(s) = Head(t) THEN StrLess(Tail(s), Tail(t))
    ELSE Ord(Head(s)) < Ord(Head(t))

\* sub in s  (Python substring test)
Contains(s, sub) ==
    \E i \in 0..(Len(s) - Len(sub)) : SubSeq(s, i + 1, i + Len(sub)) = sub

StartsWith(s, p) == Len(p) <= Len(s) /\ SubSeq(s, 1, Len(p)) = p

Dot == << "." >>
Star == << "*" >>
StarStar == << "*", "*" >>
StarTxt == << "*", ".", "t", "x", "t" >>
AStar == << "a", "*" >>
ModuleYml == << "m", "o", "d", "u", "l", "e", ".", "y", "m", "l" >>
ATxt == << "a", ".", "t", "x", "t" >>
BSh == << "b", ".", "s", "h" >>
Sub == << "s" >>
SubATxt == << "s", "/", "a", ".", "t", "x", "t" >>
SubCTxt == << "s", "/", "c", ".", "t", "x", "t" >>
Dev == << "d", "e", "v" >>

\* An optional value: Python's None, or a value that is present.
None == <<>>
Some(x) == << x >>

\* ------------------------------------------------------------------- lists
RECURSIVE SetToSeq(_)
\* list(s): the elements of a set in some order
SetToSeq(S) ==
    IF S = {} THEN <<>>
    ELSE LET x == CHOOSE y \in S : TRUE IN << x >> \o SetToSeq(S \ {x})

set(l) == { l[i] : i \in DOMAIN l }

RECURSIVE InsertSorted(_, _)
InsertSorted(x, l) ==
    IF l = <<>> THEN << x >>
    ELSE IF StrLess(Head(l), x) THEN << Head(l) >> \o InsertSorted(x, Tail(l))
    ELSE << x >> \o l

RECURSIVE sorted(_)
\* sorted(l) for a list of str
sorted(l) == IF l = <<>> THEN <<>> ELSE InsertSorted(Head(l), sorted(Tail(l)))

\* A dict is its items in insertion order: a sequence of <<key, value>>.
dict_keys(d) == { d[i][1] : i \in DOMAIN d }

dict_get(d, k, default) ==
    IF k \in dict_keys(d) THEN d[CHOOSE i \in DOMAIN d : d[i][1] = k][2] ELSE default

dict_set(d, k, v) ==
    IF k \in dict_keys(d)
    THEN [ i \in DOMAIN d |-> IF d[i][1] = k THEN << k, v >> ELSE d[i] ]
    ELSE Append(d, << k, v >>)

RECURSIVE InsertItem(_, _)
InsertItem(x, l) ==
    IF l = <<>> THEN << x >>
    ELSE IF StrLess(Head(l)[1], x[1]) THEN << Head(l) >> \o InsertItem(x, Tail(l))
    ELSE << x >> \o l

\* the bug "return list(d.items())": declaration order leaks into the result
sorted_items_unordered(d) == d

RECURSIVE sorted_items(_)
\* sorted(d.items()): keys are unique, so the order is the order of the keys
sorted_items(d) == IF d = <<>> THEN <<>> ELSE InsertItem(Head(d), sorted_items(Tail(d)))

\* item.get(key, default) on a manifest mapping (a record with optional fields)
get(item, key, default) == IF key \in DOMAIN item THEN item[key] ELSE default

\* -------------------------------------------------------------- filesystem
\* A working tree maps each path (relative to the tree's root) to an entry:
\* [kind |-> "file" | "dir", exec |-> BOOLEAN, data |-> contents].
Slash == << "/" >>

\* The paths below `folder`, relative to it (the names pushd(folder) makes visible).
Under(fs, folder) ==
    IF folder = Dot THEN DOMAIN fs
    ELSE { SubSeq(p, Len(folder) + 2, Len(p)) :
             p \in { q \in DOMAIN fs : StartsWith(q, folder \o Slash) } }

\* The entry a relative path names inside `folder`.
Entry(fs, folder, path) == IF folder = Dot THEN fs[path] ELSE fs[folder \o Slash \o path]

isfile(fs, folder, path) ==
    /\ path \in Under(fs, folder)
    /\ Entry(fs, folder, path).kind = "file"

RECURSIVE fnmatch(_, _)
\* fnmatch of one path component against a pattern of literals and "*"
fnmatch(name, pat) ==
    IF pat = <<>> THEN name = <<>>
    ELSE IF Head(pat) = "*"
         THEN fnmatch(name, Tail(pat)) \/ (name # <<>> /\ fnmatch(Tail(name), pat))
    ELSE name # <<>> /\ Head(name) = Head(pat) /\ fnmatch(Tail(name), Tail(pat))

\* glob.glob(pattern, recursive=recursive) in `folder`, as a set: the caller sorts.
\* Patterns are one component; "**" with recursive=True walks every level, and
\* a leading "." is matched only by a pattern that starts with ".".
glob(fs, folder, pattern, recursive) ==
    IF recursive /\ pattern = StarStar
    THEN { p \in Under(fs, folder) : Head(p) # "." }
    ELSE { p \in Under(fs, folder) :
             /\ ~Contains(p, Slash)
             /\ fnmatch(p, pattern)
             /\ (Head(p) = "." => Head(pattern) = ".") }

\* --------------------------------------------------------------- collector
\* full.setdefault(folder, []).extend(files)
extend(d, folder, files) == dict_set(d, folder, dict_get(d, folder, <<>>) \o files)

RECURSIVE collect_patterns(_, _, _, _, _)
\* The loop over one group's patterns: acc is <<full, md5>>.
collect_patterns(fs, acc, item, folder, patterns) ==
    IF patterns = <<>> THEN acc
    ELSE LET recursive == get(item, "recursive", FALSE)
             files == sorted(SetToSeq(glob(fs, folder, Head(patterns), recursive)))
             full == extend(acc[1], folder, files)
             md5 == IF get(item, "include_in_md5", FALSE)
                    THEN extend(acc[2], folder, files)
                    ELSE acc[2]
         IN  collect_patterns(fs, << full, md5 >>, item, folder, Tail(patterns))

\* the bug "deduplicate after the loop, not in it": the group only accumulates
collect_group_nodedup(fs, acc, item) ==
    LET folder == get(item, "folder", Dot)
    IN  collect_patterns(fs, acc, item, folder, get(item, "pattern", << Star >>))

\* One iteration of the loop over the artifact groups, its two closing
\* assignments included (they are inside the loop).
collect_group(fs, acc, item) ==
    LET folder == get(item, "folder", Dot)
        got == collect_patterns(fs, acc, item, folder, get(item, "pattern", << Star >>))
        full == dict_set(got[1], folder,
                         sorted(SetToSeq(set(dict_get(got[1], folder, <<>>)))))
        md5 == dict_set(got[2], folder,
                        sorted(SetToSeq(set(dict_get(got[2], folder, <<>>)))))
    IN  << full, md5 >>

RECURSIVE collect_loop(_, _, _)
collect_loop(fs, acc, artifacts) ==
    IF artifacts = <<>> THEN acc
    ELSE collect_loop(fs, collect_group(fs, acc, Head(artifacts)), Tail(artifacts))

\* collect_files(artifacts) in working tree fs: <<all files, md5 files>>, each a
\* sequence of <<folder, files>>.
collect_files(fs, artifacts) ==
    LET acc == collect_loop(fs, << <<>>, <<>> >>, artifacts)
    IN  << sorted_items(acc[1]), sorted_items(acc[2]) >>

\* ---------------------------------------------------------------- archiver
ZipDate == << 2020, 1, 1, 0, 0, 0 >>

\* add_file(zip_file, path, in_zip_path): the entry written for a source file
add_file(entry, in_zip_path) ==
    [ filename |-> in_zip_path,
      date_time |-> ZipDate,
      permission |-> IF entry.exec THEN "0o555" ELSE "0o444",
      data |-> entry.data ]

\* generate_versioned_conf: the temporary file holding the manifest with its
\* version rewritten (a fresh NamedTemporaryFile is not executable)
generate_versioned_conf(fs, folder, path, version) ==
    LET conf == Entry(fs, folder, path).data
    IN  [ kind |-> "file", exec |-> FALSE,
          data |-> [ dumped |-> [ conf EXCEPT !.version = version ] ] ]

RECURSIVE zip_folder(_, _, _, _)
\* the inner loop of create_zip: the entries one (folder, files) pair adds
zip_folder(fs, folder, files, version) ==
    IF files = <<>> THEN <<>>
    ELSE LET path == Head(files)
             rest == zip_folder(fs, folder, Tail(files), version)
         IN  IF version # None /\ folder = Dot /\ path = ModuleYml
             THEN << add_file(generate_versioned_conf(fs, folder, path, version[1]), path) >>
                  \o rest
             ELSE IF isfile(fs, folder, path)
             THEN << add_file(Entry(fs, folder, path), path) >> \o rest
             ELSE rest

RECURSIVE create_zip(_, _, _)
\* create_zip(files, version): the archive as its sequence of entries; version is
\* None or Some(str)
create_zip(fs, files, version) ==
    IF files = <<>> THEN <<>>
    ELSE zip_folder(fs, Head(files)[1], Head(files)[2], version)
         \o create_zip(fs, Tail(files), version)

\* hashlib.md5(...).hexdigest(), idealised as collision free: the digest names
\* the bytes it was computed from.
md5hex(bytes) == [ md5 |-> bytes ]

calc_md5(fs, md5_files) == md5hex(create_zip(fs, md5_files, None))

\* =================================================== collector, on its own
VARIABLES
    artifacts,     \* the manifest's "artifacts" list given to collect_files
    artifacts2,    \* a second manifest, collected in the same working tree
    collected,     \* collect_files(artifacts): <<all files, md5 files>>
    collected2,    \* collect_files(artifacts2)
    fingerprint,   \* calc_md5 of collected's md5 files
    fingerprint2,  \* calc_md5 of collected2's md5 files
    cpc            \* "start" -> "collected" -> "hashed"

cvars == << artifacts, artifacts2, collected, collected2, fingerprint, fingerprint2, cpc >>

File(d, x) == [ kind |-> "file", exec |-> x, data |-> d ]
Dir == [ kind |-> "dir", exec |-> TRUE, data |-> 0 ]

\* the manifest mapping kept in module.yml (what yaml.load returns under "module")
Conf(version) == [ name |-> "mod", version |-> version ]

\* The working tree the collector runs in: a manifest, two files, one
\* executable, and a sub-folder holding a file of the same name as one above it.
CollectTree ==
    (ModuleYml :> File(Conf(<< "1" >>), FALSE)) @@ (ATxt :> File(1, FALSE))
    @@ (BSh :> File(2, TRUE)) @@ (Sub :> Dir)
    @@ (SubATxt :> File(3, FALSE)) @@ (SubCTxt :> File(4, TRUE))

\* Artifact groups as module.yml can declare them; absent keys take the defaults.
GroupSet ==
    { [ pattern |-> << StarTxt >>, include_in_md5 |-> TRUE ],
      [ folder |-> Sub, pattern |-> << AStar, Star >>, include_in_md5 |-> FALSE ],
      [ folder |-> Sub, include_in_md5 |-> TRUE ],
      [ folder |-> Dot, pattern |-> << StarStar >>, recursive |-> TRUE,
        include_in_md5 |-> TRUE ] }

ArtifactLists(n) == UNION { [ 1..k -> GroupSet ] : k \in 0..n }

\* every reordering of a list
Reorderings(l) ==
    { [ i \in DOMAIN l |-> l[f[i]] ] :
        f \in { g \in [ DOMAIN l -> DOMAIN l ] : \A i, j \in DOMAIN l : g[i] = g[j] => i = j } }

\* The second manifest is a reordering of the first, or any shorter manifest.
CollectInit ==
    /\ artifacts \in ArtifactLists(MaxGroups)
    /\ artifacts2 \in Reorderings(artifacts) \cup ArtifactLists(MaxGroups - 1)
    /\ collected = << <<>>, <<>> >>
    /\ collected2 = << <<>>, <<>> >>
    /\ fingerprint = md5hex(<<>>)
    /\ fingerprint2 = md5hex(<<>>)
    /\ cpc = "start"

\* collect_files on both manifests
Collect ==
    /\ cpc = "start"
    /\ collected' = collect_files(CollectTree, artifacts)
    /\ collected2' = collect_files(CollectTree, artifacts2)
    /\ cpc' = "collected"
    /\ UNCHANGED << artifacts, artifacts2, fingerprint, fingerprint2 >>

\* calc_md5 on both results
Fingerprint ==
    /\ cpc = "collected"
    /\ fingerprint' = calc_md5(CollectTree, collected[2])
    /\ fingerprint2' = calc_md5(CollectTree, collected2[2])
    /\ cpc' = "hashed"
    /\ UNCHANGED << artifacts, artifacts2, collected, collected2 >>

\* ============================================ object store and the commands
VARIABLES
    store,       \* the bucket: key -> object body
    tree,        \* the working tree publish runs in
    moddir,      \* the local directory modules/<name>: [exists, files]
    pc,          \* where the running command is; "idle" between commands
    inv,         \* the running command's local variables
    exit_code,   \* the exit status, once pc = "exited"
    message,     \* what the command printed on ending: "none", "echo", "traceback"
    ops,         \* the store requests of the running command, in order
    ninv,        \* commands started so far
    prev,        \* history: the version of the previous publish, if it exited 0
    latest0,     \* history: the Latest Pointer Document when the command started
    uploaded,    \* history: archive key -> the md5sum computed by the last publish
                 \* that put it and exited 0
    ptr_keys     \* history: the keys last written by the command that last
                 \* wrote the Latest Pointer Document

pvars == << store, tree, moddir, pc, inv, exit_code, message, ops,
            ninv, prev, latest0, uploaded, ptr_keys >>

vars == << cvars, pvars >>

ModuleName == "mod"
Latest == << "l", "a", "t", "e", "s", "t" >>

\* f"modules/{module_name}-latest.yml"
latest_key(module_name) == << "modules/", module_name, "-", Latest, ".yml" >>

\* the archive's key: under modules/dev/ when "dev" is in the version
archive_key(module_name, version) ==
    IF Contains(version, Dev)
    THEN << "modules/dev/", module_name, "-", version, ".zip" >>
    ELSE << "modules/", module_name, "-", version, ".zip" >>

\* yaml.dump / yaml.load of a mapping of strings
yaml_dump(doc) == [ yaml |-> doc ]
yaml_load(body) == body.yaml

\* What can go wrong in a request to the store, besides a missing key.
NoFault == [ raised |-> "no", code |-> "" ]
Faults ==
    { [ raised |-> "NoCredentialsError", code |-> "" ],
      [ raised |-> "ClientError", code |-> "AccessDenied" ],
      [ raised |-> "EndpointConnectionError", code |-> "" ] }

\* s3.get_object: the response, or the exception botocore raises
s3_get_object(st, key, fault) ==
    IF fault # NoFault THEN [ raised |-> fault.raised, code |-> fault.code, body |-> None ]
    ELSE IF key \in DOMAIN st THEN [ raised |-> "no", code |-> "", body |-> Some(st[key]) ]
    ELSE [ raised |-> "ClientError", code |-> "NoSuchKey", body |-> None ]

\* the bug "a missing key is an error like any other"
get_object_strict(st, key, fault) ==
    LET r == s3_get_object(st, key, fault)
    IN  IF r.raised = "no" THEN [ kind |-> "response", body |-> r.body ]
        ELSE IF r.raised = "ClientError" /\ r.code # ""
        THEN [ kind |-> "exit", body |-> None ]
        ELSE IF r.raised = "NoCredentialsError" THEN [ kind |-> "exit", body |-> None ]
        ELSE [ kind |-> "raise", body |-> None ]

\* get_object(bucket, key): "response" with the body, "None" for a missing key,
\* "exit" for echo + sys.exit(1), "raise" for an exception passed on.
get_object(st, key, fault) ==
    LET r == s3_get_object(st, key, fault)
    IN  IF r.raised = "no" THEN [ kind |-> "response", body |-> r.body ]
        ELSE IF r.raised = "NoCredentialsError" THEN [ kind |-> "exit", body |-> None ]
        ELSE IF r.raised = "ClientError" /\ r.code = "NoSuchKey"
        THEN [ kind |-> "None", body |-> None ]
        ELSE IF r.raised = "ClientError" /\ r.code # ""
        THEN [ kind |-> "exit", body |-> None ]
        ELSE [ kind |-> "raise", body |-> None ]

\* get_latest_details: "return" with (version, md5sum), both None when the
\* pointer is missing; "exit" and "raise" pass through from get_object.
get_latest_details(st, module_name, fault) ==
    LET response == get_object(st, latest_key(module_name), fault)
    IN  IF response.kind = "None"
        THEN [ kind |-> "return", value |-> << None, None >> ]
        ELSE IF response.kind = "response"
        THEN LET latest == yaml_load(response.body[1])
             IN  [ kind |-> "return",
                   value |-> << Some(latest.version), Some(latest.md5sum) >> ]
        ELSE [ kind |-> response.kind, value |-> << None, None >> ]

\* What the store answered to a get, for the log of requests.
reply(st, key, fault) ==
    LET r == s3_get_object(st, key, fault)
    IN  IF r.raised = "no" THEN "ok" ELSE IF r.code # "" THEN r.code ELSE r.raised

\* How a command that stops at a store error ends: sys.exit(1) after an echo,
\* or an uncaught exception (the interpreter prints the traceback and exits 1).
end_message(kind) == IF kind = "exit" THEN "echo" ELSE "traceback"

\* ------------------------------------------------------------------ publish
\* conf["module"]["artifacts"] of the published module: the *.txt files are
\* fingerprinted, everything in the folder is packaged.
ManifestArtifacts ==
    << [ pattern |-> << StarTxt >>, include_in_md5 |-> TRUE ],
       [ folder |-> Dot, pattern |-> << Star >> ] >>

PublishTree(a, withB) ==
    (ModuleYml :> File(Conf(<< "1" >>), FALSE)) @@ (ATxt :> File(a, FALSE))
    @@ (IF withB THEN (BSh :> File(0, TRUE)) ELSE <<>>)

\* The states the user leaves the working tree in between two publishes.
PublishTrees == { PublishTree(1, FALSE), PublishTree(2, TRUE), PublishTree(3, FALSE) }

\* The build number variable: unset, or set by the build server.
Environs == { None, Some(<< "7" >>), Some(<< "8" >>), Some(Dev) }

\* datetime.now().strftime("%Y%m%d%H%M%S"): one digit stands for the 14
Now(t) == << Alphabet[t + Ord("0")] >>

NoDir == [ exists |-> FALSE, files |-> {} ]

\* The folder an install of an older release left behind.
OldInstall ==
    [ exists |-> TRUE,
      files |-> { << ModuleYml, [ dumped |-> Conf(<< "0", ".", "9" >>) ] >>,
                  << BSh, 0 >>, << SubCTxt, 4 >> } ]

\* The running command's variables.  `again`, `prior` and `before` are history:
\* whether the previous publish exited 0 with this version and these files, the
\* md5sum of the archive an earlier publish put under this version, and the
\* module's folder as install found it.
IdleInv ==
    [ cmd |-> "none", version |-> None, requested |-> None,
      latest_version |-> None, latest_md5sum |-> None, new_md5sum |-> None,
      outcome |-> "none", again |-> FALSE, prior |-> None, before |-> NoDir ]

Pointer(st) == IF latest_key(ModuleName) \in DOMAIN st THEN Some(st[latest_key(ModuleName)]) ELSE None

PInit ==
    /\ store = <<>>
    /\ tree = PublishTree(1, FALSE)
    /\ moddir \in { NoDir, OldInstall }
    /\ pc = "idle"
    /\ inv = IdleInv
    /\ exit_code = 0
    /\ message = "none"
    /\ ops = <<>>
    /\ ninv = 0
    /\ prev = None
    /\ latest0 = None
    /\ uploaded = <<>>
    /\ ptr_keys = {}

\* The command ends: status and message are set, nothing else moves.
Exit(code, msg) ==
    /\ pc' = "exited"
    /\ exit_code' = code
    /\ message' = msg

\* publish, to the call of get_latest_details: the manifest is read and the
\* version resolved.  The user's working tree, the environment and the reading
\* of the local wall clock are inputs.
PublishLoad ==
    /\ pc = "idle"
    /\ ninv < MaxInvocations
    /\ tree' \in PublishTrees
    /\ \E environ \in Environs, t \in 0..MaxClock :
         LET conf == tree'[ModuleYml].data
             now == Now(t)
             build_number == IF environ # None THEN environ[1] ELSE Dev \o now
             version == conf.version \o Dot \o build_number
             key == archive_key(ModuleName, version)
         IN  inv' = [ IdleInv EXCEPT
                        !.cmd = "publish",
                        !.version = Some(version),
                        !.again = (prev = Some(version) /\ tree' = tree),
                        !.prior = IF key \in DOMAIN uploaded
                                  THEN Some(uploaded[key]) ELSE None ]
    /\ pc' = "p_resolve"
    /\ ninv' = ninv + 1
    /\ latest0' = Pointer(store)
    /\ ops' = <<>>
    /\ UNCHANGED << store, moddir, exit_code, message, prev, uploaded, ptr_keys >>

\* latest_version, latest_md5sum = get_latest_details(bucket, module_name)
PublishResolve ==
    /\ pc = "p_resolve"
    /\ \E fault \in { NoFault } \cup Faults :
         LET r == get_latest_details(store, ModuleName, fault)
         IN  /\ ops' = Append(ops, [ op |-> "get", key |-> latest_key(ModuleName),
                                     reply |-> reply(store, latest_key(ModuleName), fault),
                                     changed |-> FALSE ])
             /\ IF r.kind = "return"
                THEN /\ inv' = [ inv EXCEPT !.latest_version = r.value[1],
                                            !.latest_md5sum = r.value[2] ]
                     /\ pc' = "p_compare"
                     /\ UNCHANGED << exit_code, message >>
                ELSE /\ Exit(1, end_message(r.kind))
                     /\ UNCHANGED inv
    /\ UNCHANGED << store, tree, moddir, ninv, prev, latest0,
                    uploaded, ptr_keys >>

\* the bug "a collision is only reported": the second branch falls through
compare_no_reject(version, new_md5sum, latest_version, latest_md5sum) ==
    IF Some(version) = latest_version /\ Some(new_md5sum) = latest_md5sum THEN "match"
    ELSE IF Some(version) # latest_version /\ Some(new_md5sum) = latest_md5sum
    THEN "unchanged"
    ELSE "upload"

\* the bug "never skip": equal fingerprints upload again
compare_no_skip(version, new_md5sum, latest_version, latest_md5sum) ==
    IF Some(version) = latest_version /\ Some(new_md5sum) # latest_md5sum THEN "collision"
    ELSE "upload"

\* the if / elif / elif of publish: "match" and "unchanged" are sys.exit(0),
\* "collision" is sys.exit(1), "upload" falls through to the upload.
compare(version, new_md5sum, latest_version, latest_md5sum) ==
    IF Some(version) = latest_version /\ Some(new_md5sum) = latest_md5sum THEN "match"
    ELSE IF Some(version) = latest_version /\ Some(new_md5sum) # latest_md5sum
    THEN "collision"
    ELSE IF Some(new_md5sum) = latest_md5sum THEN "unchanged"
    ELSE "upload"

\* collect_files, calc_md5 and the comparison with the latest published version
PublishCompare ==
    /\ pc = "p_compare"
    /\ LET files == collect_files(tree, ManifestArtifacts)
           new_md5sum == calc_md5(tree, files[2])
           branch == compare(inv.version[1], new_md5sum,
                             inv.latest_version, inv.latest_md5sum)
       IN  /\ inv' = [ inv EXCEPT !.new_md5sum = Some(new_md5sum), !.outcome = branch ]
           /\ IF branch = "upload"
              THEN pc' = "p_put_archive" /\ UNCHANGED << exit_code, message >>
              ELSE Exit(IF branch = "collision" THEN 1 ELSE 0, "echo")
    /\ UNCHANGED << store, tree, moddir, ops, ninv, prev, latest0,
                    uploaded, ptr_keys >>

\* s3.put_object, as the store sees it
s3_put_object(st, key, body) == [ k \in DOMAIN st \cup { key } |-> IF k = key THEN body ELSE st[k] ]

\* A put is answered "ok", or fails with nothing written ("error").
PutOutcomes == { "ok", "error" }

\* the bug "try: put_object ... except: pass"
put_raises_never(outcome) == FALSE

\* publish has no handler around put_object: whatever it raises ends the command
put_raises(outcome) == outcome # "ok"

\* the bug "every publish moves the pointer"
updates_latest_always(version) == TRUE

\* if "dev" not in version
updates_latest(version) == ~Contains(version, Dev)

\* The keys the running command has written.
PutKeys == { ops[i].key : i \in { j \in DOMAIN ops : ops[j].op = "put" /\ ops[j].reply = "ok" } }

\* One put of the running command: the store, the log and the history.
Put(key, body, outcome) ==
    /\ store' = IF outcome = "ok" THEN s3_put_object(store, key, body) ELSE store
    /\ ptr_keys' = IF outcome # "ok" THEN ptr_keys
                   ELSE IF key = latest_key(ModuleName) THEN PutKeys
                   ELSE ptr_keys \ { key }
    /\ ops' = Append(ops, [ op |-> "put", key |-> key, reply |-> outcome,
                             changed |-> store' # store ])

\* create_zip(all_files, version) and the put of the archive
PublishPutArchive ==
    /\ pc = "p_put_archive"
    /\ LET version == inv.version[1]
           key == archive_key(ModuleName, version)
           all_files == collect_files(tree, ManifestArtifacts)[1]
           artifact_zip == create_zip(tree, all_files, Some(version))
       IN  \E outcome \in PutOutcomes :
             /\ Put(key, [ zip |-> artifact_zip ], outcome)
             /\ IF put_raises(outcome) THEN Exit(1, "traceback")
                ELSE IF updates_latest(version)
                THEN pc' = "p_put_latest" /\ UNCHANGED << exit_code, message >>
                ELSE Exit(0, "none")
    /\ UNCHANGED << tree, moddir, inv, ninv, prev, latest0, uploaded >>

\* the put of the Latest Pointer Document; publish returns after it
PublishPutLatest ==
    /\ pc = "p_put_latest"
    /\ LET latest == [ version |-> inv.version[1], md5sum |-> inv.new_md5sum[1] ]
       IN  \E outcome \in PutOutcomes :
             /\ Put(latest_key(ModuleName), yaml_dump(latest), outcome)
             /\ IF put_raises(outcome) THEN Exit(1, "traceback") ELSE Exit(0, "none")
    /\ UNCHANGED << tree, moddir, inv, ninv, prev, latest0, uploaded >>

\* The process is gone and the shell takes the next command; what the
\* publish was is kept for the properties that relate two publishes.
Finish ==
    /\ pc = "exited"
    /\ prev' = IF inv.cmd # "publish" THEN prev
               ELSE IF exit_code = 0 THEN inv.version ELSE None
    /\ pc' = "idle"
    /\ inv' = IdleInv
    /\ exit_code' = 0
    /\ message' = "none"
    /\ ops' = <<>>
    /\ latest0' = None
    /\ uploaded' = IF inv.cmd = "publish" /\ exit_code = 0
                      /\ archive_key(ModuleName, inv.version[1]) \in PutKeys
                   THEN s3_put_object(uploaded, archive_key(ModuleName, inv.version[1]),
                                      inv.new_md5sum[1])
                   ELSE uploaded
    /\ UNCHANGED << store, tree, moddir, ninv, ptr_keys >>

\* ------------------------------------------------------------------ install
\* What the user asks for: "mod", "mod==latest", "mod==1.7", "mod==1.dev0".
InstallRequests ==
    { None, Some(Latest), Some(<< "1", ".", "7" >>),
      Some(<< "1", ".", "d", "e", "v", "0" >>) }

\* the bug "install over what is there": the existing folder is left alone
rmtree_skipped(dir) == dir

\* shutil.rmtree(path), when it succeeds
rmtree(dir) == NoDir

\* zip_file.extractall(path): the files the archive's entries become
extractall(zip) == { << zip[i].filename, zip[i].data >> : i \in DOMAIN zip }

\* install_module, to its first request to the store: an existing folder is
\* removed, and a failure to remove it is fatal (the folder is left whole, or
\* emptied of what could be removed).
InstallStart ==
    /\ pc = "idle"
    /\ ninv < MaxInvocations
    /\ ninv' = ninv + 1
    /\ latest0' = Pointer(store)
    /\ ops' = <<>>
    /\ \E requested \in InstallRequests, removed \in BOOLEAN :
         /\ moddir.exists \/ removed
         /\ IF moddir.exists /\ ~removed
            THEN /\ \E left \in { moddir.files, {} } :
                      moddir' = [ exists |-> TRUE, files |-> left ]
                 /\ inv' = [ IdleInv EXCEPT !.cmd = "install", !.requested = requested,
                                            !.before = moddir ]
                 /\ Exit(1, "echo")
            ELSE /\ moddir' = IF moddir.exists THEN rmtree(moddir) ELSE moddir
                 /\ inv' = [ IdleInv EXCEPT !.cmd = "install", !.requested = requested,
                                            !.version = requested, !.before = moddir ]
                 /\ pc' = IF requested = None \/ requested = Some(Latest)
                          THEN "i_resolve" ELSE "i_get"
                 /\ UNCHANGED << exit_code, message >>
    /\ UNCHANGED << store, tree, prev, uploaded, ptr_keys >>

\* version, _ = get_latest_details(bucket, module_name), and the return when
\* nothing was ever published
InstallResolve ==
    /\ pc = "i_resolve"
    /\ \E fault \in { NoFault } \cup Faults :
         LET r == get_latest_details(store, ModuleName, fault)
         IN  /\ ops' = Append(ops, [ op |-> "get", key |-> latest_key(ModuleName),
                                     reply |-> reply(store, latest_key(ModuleName), fault),
                                     changed |-> FALSE ])
             /\ IF r.kind # "return"
                THEN Exit(1, end_message(r.kind)) /\ UNCHANGED inv
                ELSE IF r.value[1] = None
                THEN /\ inv' = [ inv EXCEPT !.version = Some(Latest), !.outcome = "no_latest" ]
                     /\ Exit(0, "echo")
                ELSE /\ inv' = [ inv EXCEPT !.version = r.value[1] ]
                     /\ pc' = "i_get"
                     /\ UNCHANGED << exit_code, message >>
    /\ UNCHANGED << store, tree, moddir, ninv, prev, latest0,
                    uploaded, ptr_keys >>

\* the download of the archive and, when it is there, os.makedirs and
\* extractall; either can fail and leave the folder absent, empty or filled.
InstallFetch ==
    /\ pc = "i_get"
    /\ LET key == archive_key(ModuleName, inv.version[1])
       IN  \E fault \in { NoFault } \cup Faults :
             LET response == get_object(store, key, fault)
             IN  /\ ops' = Append(ops, [ op |-> "get", key |-> key,
                                         reply |-> reply(store, key, fault),
                                         changed |-> FALSE ])
                 /\ IF response.kind = "None"
                    THEN /\ inv' = [ inv EXCEPT !.outcome = "not_found" ]
                         /\ Exit(0, "echo")
                         /\ UNCHANGED moddir
                    ELSE IF response.kind # "response"
                    THEN /\ Exit(1, end_message(response.kind))
                         /\ UNCHANGED << inv, moddir >>
                    ELSE LET files == extractall(response.body[1].zip)
                         IN  \/ /\ ~moddir.exists
                                /\ moddir' = [ exists |-> TRUE, files |-> files ]
                                /\ inv' = [ inv EXCEPT !.outcome = "installed" ]
                                /\ Exit(0, "none")
                             \/ /\ moddir.exists
                                /\ inv' = [ inv EXCEPT !.outcome = "failed" ]
                                /\ Exit(1, "echo")
                                /\ UNCHANGED moddir
                             \/ /\ ~moddir.exists
                                /\ \E left \in { files, {} } :
                                     moddir' \in { NoDir, [ exists |-> TRUE, files |-> left ] }
                                /\ inv' = [ inv EXCEPT !.outcome = "failed" ]
                                /\ Exit(1, "echo")
    /\ UNCHANGED << store, tree, ninv, prev, latest0,
                    uploaded, ptr_keys >>

\* ----------------------------------------------------------- specifications
CollectIdle ==
    /\ artifacts = <<>>
    /\ artifacts2 = <<>>
    /\ collected = << <<>>, <<>> >>
    /\ collected2 = << <<>>, <<>> >>
    /\ fingerprint = md5hex(<<>>)
    /\ fingerprint2 = md5hex(<<>>)
    /\ cpc = "off"

Init == PInit /\ CollectIdle

Next ==
    \/ (PublishLoad /\ UNCHANGED cvars)
    \/ (PublishResolve /\ UNCHANGED cvars)
    \/ (PublishCompare /\ UNCHANGED cvars)
    \/ (PublishPutArchive /\ UNCHANGED cvars)
    \/ (PublishPutLatest /\ UNCHANGED cvars)
    \/ (InstallStart /\ UNCHANGED cvars)
    \/ (InstallResolve /\ UNCHANGED cvars)
    \/ (InstallFetch /\ UNCHANGED cvars)
    \/ (Finish /\ UNCHANGED cvars)

\* publish and install commands, one after the other, against one bucket
Spec == Init /\ [][Next]_vars

CollectNext ==
    \/ (Collect /\ UNCHANGED pvars)
    \/ (Fingerprint /\ UNCHANGED pvars)

\* No command has run; the collector is given its manifests.
InitCollect == PInit /\ moddir = NoDir /\ CollectInit

\* collect_files and calc_md5 on drawn manifests
SpecCollect == InitCollect /\ [][CollectNext]_vars

\* =================================================================== claims
\* Notation for the properties below.
Published == inv.cmd = "publish"
Installed == inv.cmd = "install"
Ended == pc = "exited"
Version == inv.version[1]
\* the fingerprint of the working tree as it is
Fp == calc_md5(tree, collect_files(tree, ManifestArtifacts)[2])
\* the put requests of the running command, whatever the store answered
PutRequests == { i \in DOMAIN ops : ops[i].op = "put" }
GetRequests == { i \in DOMAIN ops : ops[i].op = "get" }
Compared == Published /\ inv.outcome # "none"
\* every request of the running command was answered (a missing key is an answer)
AllAnswered == \A i \in DOMAIN ops : ops[i].reply \in { "ok", "NoSuchKey" }
IsDevKey(key) == key[1] = "modules/dev/"

\* C1: at Compare, with the remote pair as the store holds it (both absent
\* when there is no pointer): equal version and equal fingerprint end the
\* command with status 0, equal version and different fingerprint end it with
\* status 1, a different version with the latest fingerprint ends it with
\* status 0, anything else goes on to the upload; and a command ended at
\* Compare has requested no put and left the pointer as it was.
C1_CompareTable ==
    Compared =>
      LET same_version == latest0 # None /\ yaml_load(latest0[1]).version = Version
          same_md5 == latest0 # None /\ yaml_load(latest0[1]).md5sum = Fp
          skip == (same_version /\ same_md5) \/ (~same_version /\ same_md5)
          reject == same_version /\ ~same_md5
      IN  /\ (latest0 = None) = (inv.latest_version = None /\ inv.latest_md5sum = None)
          /\ skip => Ended /\ exit_code = 0 /\ inv.outcome \in { "match", "unchanged" }
          /\ reject => Ended /\ exit_code = 1 /\ inv.outcome = "collision"
          /\ (skip \/ reject) => PutRequests = {} /\ Pointer(store) = latest0
          /\ ~(skip \/ reject) =>
                /\ inv.outcome = "upload"
                /\ (pc = "p_put_archive" \/ PutRequests # {})

\* C1 happens: a new version whose files have the latest fingerprint is skipped.
C1_Witness ==
    /\ Compared /\ Ended /\ exit_code = 0
    /\ inv.outcome = "unchanged"
    /\ latest0 # None

\* C2, as claimed, for release versions: a publish under a version an earlier
\* publish put an archive for and exited 0, with other hash-included content,
\* exits 1, requests no put and leaves the pointer alone (the store answering
\* every request).
C2_AnyEarlierPublish ==
    (Published /\ Ended /\ AllAnswered /\ ~Contains(Version, Dev)
       /\ inv.prior # None /\ inv.prior # Some(Fp))
      => exit_code = 1 /\ PutRequests = {} /\ Pointer(store) = latest0

\* C2, amended: a publish whose version is the one the Latest Pointer Document
\* names, with a fingerprint other than the pointer's, exits 1, requests no put
\* and leaves the pointer alone.
C2_CollisionWithLatest ==
    (Published /\ Ended /\ latest0 # None
       /\ yaml_load(latest0[1]).version = Version
       /\ yaml_load(latest0[1]).md5sum # Fp)
      => exit_code = 1 /\ PutRequests = {} /\ Pointer(store) = latest0

\* C2 happens: the collision branch was taken.
C2_Witness ==
    /\ Published /\ Ended /\ inv.outcome = "collision"
    /\ inv.prior # None /\ inv.prior # Some(Fp)

\* C3, as claimed: after a publish that exited 0, a second one with the same
\* files and the same version exits 0 and requests no put (the store answering
\* every request).
C3_NoSecondUpload ==
    (Published /\ Ended /\ inv.again /\ AllAnswered)
      => exit_code = 0 /\ PutRequests = {}

\* C3, amended: when the first of two publishes with the same files and the same
\* version exited 0 and the store answers every request of the second, the
\* second exits 0 and leaves the pointer alone; it requests no put, unless the
\* version is a development version, and then its one put repeats the archive
\* under the same development key byte for byte.
C3_IdempotentPublish ==
    (Published /\ Ended /\ inv.again /\ AllAnswered)
      => /\ exit_code = 0
         /\ Pointer(store) = latest0
         /\ \/ PutRequests = {}
            \/ /\ Contains(Version, Dev)
               /\ \A i \in PutRequests :
                    ops[i].key = archive_key(ModuleName, Version) /\ ~ops[i].changed

\* C3 happens: a release was published and then published again.
C3_Witness ==
    /\ Published /\ Ended /\ inv.again /\ AllAnswered
    /\ inv.outcome = "match"

\* C4: a publish of a version containing "dev" requests no put but the one of
\* modules/dev/<name>-<version>.zip and leaves the pointer alone; so the version
\* the pointer names never contains "dev", what is stored under modules/dev/
\* is the development archives and nothing else, and an install of the
\* latest version requests nothing under modules/dev/.
C4_DevIsolation ==
    /\ (Published /\ Contains(Version, Dev)) =>
         /\ \A i \in PutRequests :
              ops[i].key = << "modules/dev/", ModuleName, "-", Version, ".zip" >>
         /\ Pointer(store) = latest0
    /\ Pointer(store) # None => ~Contains(yaml_load(Pointer(store)[1]).version, Dev)
    /\ \A key \in DOMAIN store :
         key # latest_key(ModuleName) => (IsDevKey(key) <=> Contains(key[4], Dev))
    /\ (Installed /\ inv.requested \in { None, Some(Latest) }) =>
         \A i \in GetRequests : ~IsDevKey(ops[i].key)

\* C4 happens: development archives are in the store and the latest version
\* was installed from the release prefix.
C4_Witness ==
    /\ Installed /\ Ended /\ inv.requested \in { None, Some(Latest) }
    /\ inv.outcome = "installed"
    /\ \E key \in DOMAIN store : IsDevKey(key)

\* C5: in a publish the first request is the get of the pointer and no put is
\* requested unless it was answered; the put of the pointer is requested only
\* after the put of this version's archive was answered "ok", and a pointer
\* that moved names this version and this fingerprint; a publish that ended at
\* Compare, or whose archive put failed, left the pointer as it was.
C5_PointerOrder ==
    Published =>
      /\ \A i \in PutRequests :
           /\ ops[1].op = "get" /\ ops[1].key = latest_key(ModuleName)
           /\ ops[1].reply \in { "ok", "NoSuchKey" }
      /\ \A i \in PutRequests :
           ops[i].key = latest_key(ModuleName) =>
             \E j \in 1..(i - 1) :
               /\ ops[j].op = "put" /\ ops[j].reply = "ok"
               /\ ops[j].key = archive_key(ModuleName, Version)
      /\ Pointer(store) # latest0 =>
           /\ archive_key(ModuleName, Version) \in PutKeys
           /\ Pointer(store) = Some(yaml_dump([ version |-> Version, md5sum |-> Fp ]))
      /\ (Ended /\ (inv.outcome \in { "match", "collision", "unchanged" }
                    \/ \E i \in PutRequests :
                         /\ ops[i].key = archive_key(ModuleName, Version)
                         /\ ops[i].reply # "ok"))
           => Pointer(store) = latest0

\* C5 happens: the archive put failed and the pointer, which was there, stayed.
C5_Witness ==
    /\ Published /\ Ended /\ latest0 # None
    /\ \E i \in PutRequests : ops[i].reply # "ok" /\ ops[i].key = archive_key(ModuleName, Version)

\* C6: an install that found the module's folder there and did not end with
\* status 1 leaves none of its files: the folder holds exactly the files of
\* the archive it downloaded, or, when the pointer or the archive is missing,
\* the folder is gone.
C6_InstallReplaces ==
    (Installed /\ Ended /\ inv.before.exists /\ exit_code # 1) =>
      IF inv.outcome = "installed"
      THEN /\ moddir.exists
           /\ moddir.files = extractall(store[archive_key(ModuleName, Version)].zip)
      ELSE /\ inv.outcome \in { "no_latest", "not_found" }
           /\ moddir = NoDir

\* C6 happens: a version with fewer files was installed over another.
C6_Witness ==
    /\ Installed /\ Ended /\ inv.outcome = "installed" /\ exit_code = 0
    /\ inv.before.exists
    /\ inv.before.files \ moddir.files # {}
    /\ Cardinality(moddir.files) < Cardinality(inv.before.files)

\* C7: a get answered NoSuchKey is no error: publish goes on with both values
\* absent, install ends with status 0 and without the folder; any other failed
\* request is the command's last, and the command ends with status 1 and a
\* message.
C7_NotFoundIsNoError ==
    \A i \in DOMAIN ops :
      /\ (ops[i].reply = "NoSuchKey" /\ i = Len(ops)) =>
           IF Published
           THEN /\ pc = "p_compare" \/ Compared
                /\ inv.latest_version = None /\ inv.latest_md5sum = None
           ELSE /\ Ended /\ exit_code = 0
                /\ inv.outcome \in { "no_latest", "not_found" }
                /\ ~moddir.exists
      /\ ops[i].reply \notin { "ok", "NoSuchKey" } =>
           /\ i = Len(ops)
           /\ Ended /\ exit_code = 1 /\ message # "none"

\* C7 happens: the requested archive is missing and install returns.
C7_Witness ==
    /\ Installed /\ Ended /\ exit_code = 0 /\ inv.outcome = "not_found"
    /\ Len(ops) = 1 /\ ops[1].reply = "NoSuchKey"
    /\ inv.before.exists /\ store # <<>>

\* Notation for the collector's properties.
StrictlySorted(l) == \A i \in 1..(Len(l) - 1) : StrLess(l[i], l[i + 1])
Folders(items) == [ i \in DOMAIN items |-> items[i][1] ]
FolderOf(item) == IF "folder" \in DOMAIN item THEN item.folder ELSE Dot
\* what one group matches in the tree, from the manifest and the tree alone
Matches(item) ==
    UNION { glob(CollectTree, FolderOf(item), p,
                 "recursive" \in DOMAIN item /\ item.recursive) :
            p \in (IF "pattern" \in DOMAIN item THEN set(item.pattern) ELSE { Star }) }
Hashed(item) == "include_in_md5" \in DOMAIN item /\ item.include_in_md5
\* the (folder, file) pairs a manifest declares as hash-included
HashOnly(arts) ==
    UNION { { << FolderOf(arts[i]), f >> : f \in Matches(arts[i]) } :
            i \in { j \in DOMAIN arts : Hashed(arts[j]) } }
RECURSIVE Fed(_)
\* the (folder, file) pairs in the order create_zip walks them
Fed(items) ==
    IF items = <<>> THEN <<>>
    ELSE [ i \in DOMAIN Head(items)[2] |-> << Head(items)[1], Head(items)[2][i] >> ]
         \o Fed(Tail(items))

\* C8: whatever the groups and their order, in both mappings collect_files
\* returns the folders are in increasing order, every folder's list is in
\* strictly increasing order (sorted, and free of duplicates), and the hash-only
\* mapping has the folders of the other, each with a subset of its files.
C8_CollectedSorted ==
    cpc \in { "collected", "hashed" } =>
      \A c \in { collected, collected2 } :
        /\ \A m \in { c[1], c[2] } :
             /\ StrictlySorted(Folders(m))
             /\ \A i \in DOMAIN m : StrictlySorted(m[i][2])
        /\ Folders(c[2]) = Folders(c[1])
        /\ \A i \in DOMAIN c[2] : set(c[2][i][2]) \subseteq set(c[1][i][2])

\* C8 happens: three groups, the outer two on one folder and matching a file
\* in common, the middle one on another folder that sorts after it.
C8_Witness ==
    /\ cpc = "collected"
    /\ Len(artifacts) = 3
    /\ FolderOf(artifacts[1]) = Dot /\ FolderOf(artifacts[2]) = Sub
    /\ FolderOf(artifacts[3]) = Dot
    /\ Matches(artifacts[1]) \cap Matches(artifacts[3]) # {}
    /\ Matches(artifacts[1]) # Matches(artifacts[3])
    /\ Len(collected[1]) = 2

\* C9: two manifests that declare the same hash-included (folder, file) pairs,
\* two orderings of one list of groups among them, feed the same entries in the
\* same order to the hash-only archive and get the same fingerprint.
C9_FingerprintStable ==
    (cpc = "hashed" /\ HashOnly(artifacts) = HashOnly(artifacts2)) =>
      /\ Fed(collected[2]) = Fed(collected2[2])
      /\ fingerprint = fingerprint2

\* C9 happens: the groups of a manifest that hashes files of two folders were
\* declared in another order, the folders the other way round.
C9_Witness ==
    /\ cpc = "hashed"
    /\ artifacts2 \in Reorderings(artifacts)
    /\ Len(artifacts) >= 2
    /\ Hashed(artifacts[1]) /\ Hashed(artifacts2[1])
    /\ FolderOf(artifacts[1]) # FolderOf(artifacts2[1])
    /\ Matches(artifacts[1]) # {} /\ Matches(artifacts2[1]) # {}
    /\ fingerprint # md5hex(<<>>)

\* C10: whenever the pointer holds (V, F), modules/<name>-V.zip is in the store
\* and was last written by the command that last wrote the pointer, which
\* computed F; and a publish that found the pointer naming V requests no put
\* of V's archive.
C10_PointerArchive ==
    /\ Pointer(store) # None =>
         LET latest == yaml_load(Pointer(store)[1])
             key == << "modules/", ModuleName, "-", latest.version, ".zip" >>
         IN  /\ key \in DOMAIN store
             /\ key \in ptr_keys
             /\ (Published /\ latest_key(ModuleName) \in PutKeys) =>
                  latest.md5sum = Fp /\ latest.version = Version
    /\ (Published /\ latest0 # None) =>
         \A i \in PutRequests :
           ops[i].key # << "modules/", ModuleName, "-", yaml_load(latest0[1]).version, ".zip" >>

\* C10 happens: a publish of a new version was aborted between its two puts
\* while the pointer named an older one.
C10_Witness ==
    /\ Published /\ Ended /\ latest0 # None /\ Pointer(store) = latest0
    /\ Len(ops) = 3 /\ ops[2].reply = "ok" /\ ops[3].reply = "error"

====
